---- MODULE Spec2Model ----
(***************************************************************************)
(* Distributed changefeed flow (pkg/ccl/changefeedccl/changefeed_dist.go): *)
(* span resolution, plan building with checkpoint resume, the frontier's   *)
(* resolved-timestamp merge, and the execution / replan supervision.       *)
(*                                                                         *)
(* Keys are the integers 0..NumKeys; a span is the half-open key range     *)
(* [Key, EndKey).  Timestamps are naturals, 0 being the empty timestamp.   *)
(***************************************************************************)
EXTENDS Integers, Sequences, FiniteSets, TLC

\* ---------------------------------------------------------------- bounds
MaxTables == 2
MaxTs == 3
MaxResumeTs == 1
MaxCkptSpans == 2
MaxNodes == 2
MaxGenerations == 2

NumKeys == 2 * MaxTables
Keys == 0 .. (NumKeys - 1)
Timestamps == 0 .. MaxTs

\* ------------------------------------------------------- spans (roachpb)
Max(a, b) == IF a >= b THEN a ELSE b
Min(a, b) == IF a <= b THEN a ELSE b

MkSpan(k, ek) == [Key |-> k, EndKey |-> ek]
AllSpans == {sp \in [Key : 0 .. NumKeys, EndKey : 0 .. NumKeys] : sp.Key < sp.EndKey}
SpanKeys(sp) == sp.Key .. (sp.EndKey - 1)

RECURSIVE SpansKeys(_)
SpansKeys(spans) == IF spans = <<>> THEN {} ELSE SpanKeys(Head(spans)) \cup SpansKeys(Tail(spans))

\* The primary index span of table t: tables own consecutive two-key ranges.
PrimaryIndexSpan(t) == MkSpan(2 * (t - 1), 2 * t)

\* ------------------------------------------------------------- variables
VARIABLES
    details,            \* jobspb.ChangefeedDetails: Select, SinkURI, Targets
    owner,              \* the cluster: which node owns the range of each key
    checkpoint,         \* jobspb.ChangefeedProgress_Checkpoint: Spans, Timestamp
    initialHighWater,   \* hlc.Timestamp
    pc,                 \* where startDistChangefeed is
    tableDescs,         \* result of fetchTableDescriptors
    trackedSpans,       \* result of fetchSpansForTables
    selectClause,
    err,                \* the error startDistChangefeed returns ("nil": none)
    p,                  \* the physical plan makePlan built
    frontier,           \* the frontier's span -> timestamp structure
    resolved,           \* the changefeed-level resolved timestamp
    emitted,            \* resolved timestamps emitted so far, in order
    reported,           \* per key, the highest timestamp any marker reported
    gen,                \* which invocation of startDistChangefeed this is
    threshold,          \* changefeed.replan_flow_threshold, in percent
    callerCancelled,    \* the caller's context is done
    ctxCancelled,       \* the context of the ctxgroup is done
    flowCancelled,      \* the running flow has been torn down after a failure
    execPlan,           \* where the execPlan goroutine is
    replanner,          \* where the replanner goroutine is
    replannerErr,       \* what the replanner returned
    stopReplannerClosed,
    groupErr,           \* the first error a goroutine of the group returned
    tasks,              \* the aggregator and frontier tasks that are running
    resultRowsErr,      \* changefeedResultWriter.err
    replanCount,        \* Metrics.ReplanCount
    lastCheck,          \* the replanner's latest check: what it saw and decided
    results,            \* what the consumer of resultsCh has received
    consumerReady,      \* the consumer of resultsCh is still receiving
    heap,               \* the rows in memory, by address: the producer's buffer and the copies
    addRow,             \* the AddRow call in progress, if any, and the row it is sending
    calls,              \* every AddRow call so far: the row passed, its copy, what it returned
    persisted,          \* the timestamps of the checkpoints the frontier had persisted
    emittedBy,          \* per aggregator, the events and markers it has emitted, in order
    frontierIn,         \* the frontier's input: events and markers that have arrived
    forwarded,          \* the change events the frontier has passed downstream
    progress,           \* jobspb.Progress as distChangefeedFlow receives it
    initialScanType,    \* what opts.GetInitialScanType() gives
    statementTime,      \* details.StatementTime
    schemaTS            \* the timestamp the table descriptors are fetched at

planVars == <<details, owner, checkpoint, pc, tableDescs, selectClause, err, p>>
frontierVars == <<frontier, resolved, emitted, reported, persisted>>
flowVars == <<gen, threshold, callerCancelled, ctxCancelled, flowCancelled, execPlan, replanner,
              replannerErr, stopReplannerClosed, groupErr, tasks, resultRowsErr, replanCount,
              lastCheck, results, consumerReady>>
sinkVars == <<heap, addRow, calls>>
eventVars == <<emittedBy, frontierIn, forwarded>>
startVars == <<progress, initialScanType, statementTime, schemaTS>>
vars == <<details, owner, checkpoint, initialHighWater, pc, tableDescs, trackedSpans, selectClause, err, p,
          frontier, resolved, emitted, reported, persisted, emittedBy, frontierIn, forwarded,
          gen, threshold, callerCancelled, ctxCancelled, flowCancelled, execPlan, replanner,
          replannerErr, stopReplannerClosed, groupErr, tasks, resultRowsErr, replanCount,
          lastCheck, results, consumerReady, heap, addRow, calls,
          progress, initialScanType, statementTime, schemaTS>>

\* ------------------------------------------------- frontier (span merge)
Piece(k, ek, ts) == IF k < ek THEN <<[Key |-> k, EndKey |-> ek, Ts |-> ts]>> ELSE <<>>

SplitEntryNoMax(e, sp, ts) ==
    IF sp.EndKey <= e.Key \/ e.EndKey <= sp.Key
    THEN <<e>>
    ELSE Piece(e.Key, sp.Key, e.Ts)
         \o Piece(Max(e.Key, sp.Key), Min(e.EndKey, sp.EndKey), ts)
         \o Piece(sp.EndKey, e.EndKey, e.Ts)

SplitEntryNoRemainder(e, sp, ts) ==
    IF sp.EndKey <= e.Key \/ e.EndKey <= sp.Key
    THEN <<e>>
    ELSE Piece(e.Key, sp.Key, e.Ts)
         \o Piece(Max(e.Key, sp.Key), Min(e.EndKey, sp.EndKey), Max(e.Ts, ts))

\* One sub-interval against a marker: the part of e that the marker span covers
\* moves to max(existing, ts); the parts outside it keep their timestamp.
SplitEntry(e, sp, ts) ==
    IF sp.EndKey <= e.Key \/ e.EndKey <= sp.Key
    THEN <<e>>
    ELSE Piece(e.Key, sp.Key, e.Ts)
         \o Piece(Max(e.Key, sp.Key), Min(e.EndKey, sp.EndKey), Max(e.Ts, ts))
         \o Piece(sp.EndKey, e.EndKey, e.Ts)

RECURSIVE InsertSpan(_, _, _)
InsertSpan(f, sp, ts) ==
    IF f = <<>> THEN <<>>
    ELSE SplitEntry(Head(f), sp, ts) \o InsertSpan(Tail(f), sp, ts)

RECURSIVE MergeAdjacent(_)
MergeAdjacent(f) ==
    IF Len(f) < 2 THEN f
    ELSE IF f[1].EndKey = f[2].Key /\ f[1].Ts = f[2].Ts
         THEN MergeAdjacent(<<[Key |-> f[1].Key, EndKey |-> f[2].EndKey, Ts |-> f[1].Ts]>> \o Tail(Tail(f)))
         ELSE <<f[1]>> \o MergeAdjacent(Tail(f))

Forward(f, sp, ts) == MergeAdjacent(InsertSpan(f, sp, ts))

RECURSIVE MakeFrontier(_, _)
MakeFrontier(spans, ts) ==
    IF spans = <<>> THEN <<>>
    ELSE Piece(Head(spans).Key, Head(spans).EndKey, ts) \o MakeFrontier(Tail(spans), ts)

RECURSIVE MinTs(_)
MinTs(f) == IF Len(f) = 1 THEN f[1].Ts ELSE Min(f[1].Ts, MinTs(Tail(f)))

FrontierFirstEntry(f) == IF f = <<>> THEN 0 ELSE f[1].Ts

\* The changefeed-level resolved timestamp: the minimum of the span-level ones.
Frontier(f) == IF f = <<>> THEN 0 ELSE MinTs(f)

\* ---------------------------------------------------------- span resolution
Tables == 1 .. MaxTables

Nodes == 1 .. MaxNodes

\* targets.EachTableID: every target table once, by ID.
RECURSIVE EachTableID(_)
EachTableID(tables) ==
    IF tables = {} THEN <<>>
    ELSE LET t == CHOOSE x \in tables : \A y \in tables : x <= y
         IN <<t>> \o EachTableID(tables \ {t})

PrimaryIndexSpans(descs) == [i \in 1 .. Len(descs) |-> PrimaryIndexSpan(descs[i])]

\* cdceval.ConstrainPrimaryIndexSpanByFilter: the filter narrows the table's
\* primary index span to some part of it (or the call fails).
ConstrainPrimaryIndexSpanByFilter(t) ==
    {<<sp>> : sp \in {x \in AllSpans : SpanKeys(x) \subseteq SpanKeys(PrimaryIndexSpan(t))}}

NoPlan ==
    [Built |-> FALSE, SpanPartitions |-> <<>>, AggregatorSpecs |-> <<>>,
     AggregatorPlacement |-> <<>>, ChangeFrontierSpec |-> [TrackedSpans |-> <<>>],
     FrontierNode |-> 0, FrontierInputs |-> {}]

\* ------------------------------------------------------------ partitioning
GatewayID == 1

\* Where the run of keys owned by node n that starts at k ends, within [k, ek).
RunEnd(k, ek, n, own) ==
    CHOOSE e \in (k + 1) .. ek :
        /\ \A j \in k .. (e - 1) : own[j] = n
        /\ (e = ek \/ own[e] # n)

\* The parts of [k, ek) whose ranges node n owns, adjacent ranges joined.
RECURSIVE NodeRuns(_, _, _, _)
NodeRuns(k, ek, n, own) ==
    IF k >= ek THEN <<>>
    ELSE IF own[k] # n THEN NodeRuns(k + 1, ek, n, own)
    ELSE LET e == RunEnd(k, ek, n, own)
         IN <<MkSpan(k, e)>> \o NodeRuns(e, ek, n, own)

RECURSIVE NodeSpans(_, _, _)
NodeSpans(spans, n, own) ==
    IF spans = <<>> THEN <<>>
    ELSE NodeRuns(Head(spans).Key, Head(spans).EndKey, n, own) \o NodeSpans(Tail(spans), n, own)

RECURSIVE PartitionsOf(_, _, _)
PartitionsOf(nodes, spans, own) ==
    IF nodes = {} THEN <<>>
    ELSE LET n == CHOOSE x \in nodes : \A y \in nodes : x <= y
         IN <<[SQLInstanceID |-> n, Spans |-> NodeSpans(spans, n, own)]>>
            \o PartitionsOf(nodes \ {n}, spans, own)

\* dsp.PartitionSpans: each span is cut along range ownership; every node that
\* owns part of the spans gets one partition holding its parts.
PartitionSpans(spans, own) ==
    PartitionsOf({own[k] : k \in SpansKeys(spans)}, spans, own)

\* Range ownership over the target tables (ranges of other tables are not
\* looked at and stay on the gateway).
Topologies(targets) ==
    LET targetKeys == UNION {SpanKeys(PrimaryIndexSpan(t)) : t \in targets}
    IN {[k \in Keys |-> IF k \in targetKeys THEN o[k] ELSE GatewayID] : o \in [targetKeys -> Nodes]}

\* Three particular topologies: everything on the gateway, ownership
\* alternating range by range, and ownership alternating table by table.
SampleTopologies ==
    {[k \in Keys |-> GatewayID],
     [k \in Keys |-> 1 + (k % MaxNodes)],
     [k \in Keys |-> 1 + (((k \div 2) + 1) % MaxNodes)]}

\* ------------------------------------------------------------------ makePlan
\* checkpointSpanGroup.Encloses(nodeSpan)
Encloses(group, sp) == SpanKeys(sp) \subseteq SpansKeys(group)

InitialResolvedIgnoresCheckpoint(hw, ckpt, nodeSpan) == hw

InitialResolved(hw, ckpt, nodeSpan) ==
    IF Encloses(ckpt.Spans, nodeSpan) THEN ckpt.Timestamp ELSE hw

WatchesOffByOne(spans, hw, ckpt) ==
    [i \in 1 .. (Len(spans) - 1) |->
        [Span |-> spans[i], InitialResolved |-> InitialResolved(hw, ckpt, spans[i])]]

Watches(spans, hw, ckpt) ==
    [i \in 1 .. Len(spans) |->
        [Span |-> spans[i], InitialResolved |-> InitialResolved(hw, ckpt, spans[i])]]

SpanPartitionsInverted(d, spans, own) ==
    IF d.SinkURI # ""
    THEN <<[SQLInstanceID |-> GatewayID, Spans |-> spans]>>
    ELSE PartitionSpans(spans, own)

\* Sinkless feeds get one aggregator on the gateway; all other feeds get
\* aggregators by range ownership.
SpanPartitions(d, spans, own) ==
    IF d.SinkURI = ""
    THEN <<[SQLInstanceID |-> GatewayID, Spans |-> spans]>>
    ELSE PartitionSpans(spans, own)

MakePlanAllOnGateway(d, hw, ckpt, spans, sel, own) ==
    LET spanPartitions == SpanPartitions(d, spans, own)
        aggregatorCheckpoint == [Spans |-> ckpt.Spans, Timestamp |-> ckpt.Timestamp]
    IN [Built |-> TRUE,
        SpanPartitions |-> spanPartitions,
        AggregatorSpecs |->
            [i \in 1 .. Len(spanPartitions) |->
                [Watches |-> Watches(spanPartitions[i].Spans, hw, ckpt),
                 Checkpoint |-> aggregatorCheckpoint,
                 Select |-> sel]],
        AggregatorPlacement |->
            [i \in 1 .. Len(spanPartitions) |-> GatewayID],
        ChangeFrontierSpec |-> [TrackedSpans |-> spans],
        FrontierNode |-> GatewayID,
        FrontierInputs |-> 1 .. Len(spanPartitions)]

MakePlanFrontierPerPartition(d, hw, ckpt, spans, sel, own) ==
    LET spanPartitions == SpanPartitions(d, spans, own)
        aggregatorCheckpoint == [Spans |-> ckpt.Spans, Timestamp |-> ckpt.Timestamp]
    IN [Built |-> TRUE,
        SpanPartitions |-> spanPartitions,
        AggregatorSpecs |->
            [i \in 1 .. Len(spanPartitions) |->
                [Watches |-> Watches(spanPartitions[i].Spans, hw, ckpt),
                 Checkpoint |-> aggregatorCheckpoint,
                 Select |-> sel]],
        AggregatorPlacement |->
            [i \in 1 .. Len(spanPartitions) |-> spanPartitions[i].SQLInstanceID],
        ChangeFrontierSpec |-> [TrackedSpans |-> spanPartitions[1].Spans],
        FrontierNode |-> GatewayID,
        FrontierInputs |-> 1 .. Len(spanPartitions)]

MakePlanSlicedCheckpoint(d, hw, ckpt, spans, sel, own) ==
    LET spanPartitions == SpanPartitions(d, spans, own)
        aggregatorCheckpoint == [Spans |-> ckpt.Spans, Timestamp |-> ckpt.Timestamp]
    IN [Built |-> TRUE,
        SpanPartitions |-> spanPartitions,
        AggregatorSpecs |->
            [i \in 1 .. Len(spanPartitions) |->
                [Watches |-> Watches(spanPartitions[i].Spans, hw, ckpt),
                 Checkpoint |->
                    [Spans |-> SelectSeq(ckpt.Spans,
                                         LAMBDA c : Encloses(spanPartitions[i].Spans, c)),
                     Timestamp |-> ckpt.Timestamp],
                 Select |-> sel]],
        AggregatorPlacement |->
            [i \in 1 .. Len(spanPartitions) |-> spanPartitions[i].SQLInstanceID],
        ChangeFrontierSpec |-> [TrackedSpans |-> spans],
        FrontierNode |-> GatewayID,
        FrontierInputs |-> 1 .. Len(spanPartitions)]

\* One aggregator per partition, placed on the partition's node, all of them
\* feeding the one frontier on the gateway.
MakePlan(d, hw, ckpt, spans, sel, own) ==
    LET spanPartitions == SpanPartitions(d, spans, own)
        aggregatorCheckpoint == [Spans |-> ckpt.Spans, Timestamp |-> ckpt.Timestamp]
    IN [Built |-> TRUE,
        SpanPartitions |-> spanPartitions,
        AggregatorSpecs |->
            [i \in 1 .. Len(spanPartitions) |->
                [Watches |-> Watches(spanPartitions[i].Spans, hw, ckpt),
                 Checkpoint |-> aggregatorCheckpoint,
                 Select |-> sel]],
        AggregatorPlacement |->
            [i \in 1 .. Len(spanPartitions) |-> spanPartitions[i].SQLInstanceID],
        ChangeFrontierSpec |-> [TrackedSpans |-> spans],
        FrontierNode |-> GatewayID,
        FrontierInputs |-> 1 .. Len(spanPartitions)]

\* ------------------------------------------------------ startDistChangefeed
NoCheck ==
    [Checked |-> FALSE, Same |-> FALSE, Replan |-> FALSE, Changed |-> 0, Total |-> 0,
     TrackedSpans |-> <<>>]

\* Nothing of the group has started.
GroupIdle ==
    /\ ctxCancelled = callerCancelled
    /\ flowCancelled = FALSE
    /\ execPlan = "idle"
    /\ replanner = "idle"
    /\ replannerErr = "nil"
    /\ stopReplannerClosed = FALSE
    /\ groupErr = "nil"
    /\ resultRowsErr = "nil"
    /\ lastCheck = NoCheck

\* Datums a row can hold, and the row the producer's buffer starts with.
DatumValues == {"a", "b"}
Rows == {<<d>> : d \in DatumValues}
BufAddr == 1

\* No AddRow call has been made.
SinkIdle ==
    /\ heap = <<<<"a">>>>
    /\ addRow = [state |-> "idle", row |-> 0]
    /\ calls = <<>>

NoProgress == [HighWater |-> [set |-> FALSE, ts |-> 0],
               Checkpoint |-> [set |-> FALSE, value |-> [Spans |-> <<>>, Timestamp |-> 0]]]

\* startDistChangefeed entered with given arguments: the job's progress and
\* the statement's options are not looked at.
StartArgsGiven ==
    /\ progress = NoProgress
    /\ initialScanType = "InitialScan"
    /\ statementTime = 0
    /\ schemaTS = 0

\* No aggregator has emitted anything.
EventsIdle ==
    /\ emittedBy = [i \in 1 .. Len(p.AggregatorSpecs) |-> <<>>]
    /\ frontierIn = <<>>
    /\ forwarded = <<>>

FlowIdle ==
    /\ gen = 1
    /\ callerCancelled = FALSE
    /\ GroupIdle
    /\ tasks = {}
    /\ replanCount = 0
    /\ results = <<>>
    /\ consumerReady = TRUE

FetchTableDescriptors ==
    /\ pc = "fetchTableDescriptors"
    /\ \/ /\ tableDescs' = EachTableID(details.Targets)
          /\ pc' = "fetchSpansForTables"
          /\ err' = err
       \/ /\ err' = "DescriptorError"
          /\ pc' = "returned"
          /\ tableDescs' = tableDescs
    /\ UNCHANGED <<details, owner, checkpoint, initialHighWater, trackedSpans, selectClause, p>>
    /\ UNCHANGED <<frontierVars, sinkVars, eventVars, startVars>>
    /\ UNCHANGED flowVars

FetchSpansForTablesNoCheck ==
    /\ pc = "fetchSpansForTables"
    /\ IF details.Select = ""
       THEN /\ trackedSpans' = PrimaryIndexSpans(tableDescs)
            /\ selectClause' = ""
            /\ pc' = "makePlan"
            /\ err' = err
       ELSE \/ /\ trackedSpans' \in ConstrainPrimaryIndexSpanByFilter(tableDescs[1])
               /\ selectClause' = details.Select
               /\ pc' = "makePlan"
               /\ err' = err
            \/ /\ err' = "FilterError"
               /\ pc' = "returned"
               /\ UNCHANGED <<trackedSpans, selectClause>>
    /\ UNCHANGED <<details, owner, checkpoint, initialHighWater, tableDescs, p>>
    /\ UNCHANGED <<frontierVars, sinkVars, eventVars, startVars>>
    /\ UNCHANGED flowVars

FetchSpansForTables ==
    /\ pc = "fetchSpansForTables"
    /\ IF details.Select = ""
       THEN /\ trackedSpans' = PrimaryIndexSpans(tableDescs)
            /\ selectClause' = ""
            /\ pc' = "makePlan"
            /\ err' = err
       ELSE IF Len(tableDescs) # 1
       THEN /\ err' = "InvalidParameterValue"
            /\ pc' = "returned"
            /\ UNCHANGED <<trackedSpans, selectClause>>
       ELSE \/ /\ trackedSpans' \in ConstrainPrimaryIndexSpanByFilter(tableDescs[1])
               /\ selectClause' = details.Select
               /\ pc' = "makePlan"
               /\ err' = err
            \/ /\ err' = "FilterError"
               /\ pc' = "returned"
               /\ UNCHANGED <<trackedSpans, selectClause>>
    /\ UNCHANGED <<details, owner, checkpoint, initialHighWater, tableDescs, p>>
    /\ UNCHANGED <<frontierVars, sinkVars, eventVars, startVars>>
    /\ UNCHANGED flowVars

BuildPlan ==
    /\ pc = "makePlan"
    /\ \/ /\ p' = MakePlan(details, initialHighWater, checkpoint, trackedSpans, selectClause, owner)
          /\ pc' = "GoAndWait"
          /\ err' = err
       \/ /\ details.SinkURI # ""
          /\ err' = "PartitionSpansError"
          /\ pc' = "returned"
          /\ p' = p
    /\ UNCHANGED <<details, owner, checkpoint, initialHighWater, tableDescs, trackedSpans, selectClause>>
    /\ UNCHANGED <<frontierVars, sinkVars, eventVars, startVars>>
    /\ UNCHANGED flowVars

\* Sequences of at most n spans, in key order and pairwise disjoint.
RECURSIVE SpanSeqs(_)
SpanSeqs(n) ==
    IF n = 0 THEN {<<>>}
    ELSE LET prev == SpanSeqs(n - 1)
         IN prev \cup
            {Append(x[1], x[2]) :
                x \in {y \in prev \X AllSpans :
                          y[1] = <<>> \/ y[1][Len(y[1])].EndKey <= y[2].Key}}

ResumeTimestamps == 0 .. MaxResumeTs

\* The inputs of startDistChangefeed: any request; and either any checkpoint
\* (within the target tables) and high-water on a sample topology, or no
\* checkpoint on any topology.
InitPlan ==
    /\ details \in [Select : {"", "filter"}, SinkURI : {"", "sink"}, Targets : (SUBSET Tables) \ {{}}]
    /\ \/ /\ owner \in SampleTopologies
          /\ checkpoint \in
                [Spans : {s \in SpanSeqs(MaxCkptSpans) :
                             SpansKeys(s) \subseteq SpansKeys(PrimaryIndexSpans(EachTableID(details.Targets)))},
                 Timestamp : ResumeTimestamps]
          /\ initialHighWater \in ResumeTimestamps
       \/ /\ owner \in Topologies(details.Targets)
          /\ checkpoint = [Spans |-> <<>>, Timestamp |-> 0]
          /\ initialHighWater \in ResumeTimestamps
    /\ pc = "fetchTableDescriptors"
    /\ tableDescs = <<>>
    /\ trackedSpans = <<>>
    /\ selectClause = ""
    /\ err = "nil"
    /\ p = NoPlan
    /\ threshold = 0
    /\ FlowIdle
    /\ frontier = <<>>
    /\ resolved = 0
    /\ emitted = <<>>
    /\ persisted = <<>>
    /\ reported = [k \in Keys |-> 0]
    /\ SinkIdle
    /\ EventsIdle
    /\ StartArgsGiven

NextPlan == FetchTableDescriptors \/ FetchSpansForTables \/ BuildPlan

SpecPlan == InitPlan /\ [][NextPlan]_vars

\* -------------------------------------------------------- distChangefeedFlow
MaxStatementTime == 2

InitialScanTypes == {"InitialScan", "NoInitialScan", "OnlyInitialScan"}

\* hlc.Timestamp.Next
TimestampNext(ts) == ts + 1

\* progress.GetHighWater() != nil && !h.IsEmpty()
HighWaterSet(pr) == pr.HighWater.set /\ pr.HighWater.ts # 0

\* distChangefeedFlow: the initial high-water, the schema timestamp and the
\* checkpoint are derived from the progress, the options and the statement
\* time, and startDistChangefeed is called with them.
DistChangefeedFlow ==
    /\ pc = "distChangefeedFlow"
    /\ IF initialScanType = "invalid"
       THEN /\ err' = "InvalidOptions"
            /\ pc' = "returned"
            /\ UNCHANGED <<initialHighWater, schemaTS, checkpoint>>
       ELSE LET noHighWater == ~ progress.HighWater.set \/ progress.HighWater.ts = 0
                highWater == IF noHighWater /\ initialScanType = "NoInitialScan"
                             THEN [set |-> TRUE, ts |-> statementTime]
                             ELSE progress.HighWater
                hw == IF highWater.set /\ highWater.ts # 0 THEN highWater.ts ELSE 0
                ts == IF highWater.set /\ highWater.ts # 0 THEN hw ELSE statementTime
            IN /\ initialHighWater' = hw
               /\ schemaTS' = IF highWater.set THEN TimestampNext(ts) ELSE ts
               /\ checkpoint' = IF progress.Checkpoint.set
                                THEN progress.Checkpoint.value
                                ELSE [Spans |-> <<>>, Timestamp |-> 0]
               /\ pc' = "fetchTableDescriptors"
               /\ err' = err
    /\ UNCHANGED <<details, owner, tableDescs, trackedSpans, selectClause, p>>
    /\ UNCHANGED <<progress, initialScanType, statementTime>>
    /\ UNCHANGED <<frontierVars, flowVars, sinkVars, eventVars>>

\* Any progress (no high-water, an empty one, or a resolved one; no checkpoint
\* or one within the target), any initial scan option and statement time.
InitStart ==
    /\ details \in [Select : {""}, SinkURI : {"", "sink"}, Targets : {{1}}]
    /\ owner \in SampleTopologies
    /\ progress \in
          [HighWater : {[set |-> FALSE, ts |-> 0]} \cup [set : {TRUE}, ts : ResumeTimestamps],
           Checkpoint : {[set |-> FALSE, value |-> [Spans |-> <<>>, Timestamp |-> 0]]}
                        \cup [set : {TRUE},
                              value : [Spans : {c \in SpanSeqs(MaxCkptSpans) :
                                                  SpansKeys(c) \subseteq SpanKeys(PrimaryIndexSpan(1))},
                                       Timestamp : ResumeTimestamps]]]
    /\ initialScanType \in InitialScanTypes \cup {"invalid"}
    /\ statementTime \in 1 .. MaxStatementTime
    /\ schemaTS = 0
    /\ initialHighWater = 0
    /\ checkpoint = [Spans |-> <<>>, Timestamp |-> 0]
    /\ pc = "distChangefeedFlow"
    /\ tableDescs = <<>>
    /\ trackedSpans = <<>>
    /\ selectClause = ""
    /\ err = "nil"
    /\ p = NoPlan
    /\ threshold = 0
    /\ FlowIdle
    /\ frontier = <<>>
    /\ resolved = 0
    /\ emitted = <<>>
    /\ persisted = <<>>
    /\ reported = [k \in Keys |-> 0]
    /\ SinkIdle
    /\ EventsIdle

NextStart == DistChangefeedFlow \/ FetchTableDescriptors \/ FetchSpansForTables \/ BuildPlan

SpecStart == InitStart /\ [][NextStart]_vars

\* ------------------------------------------------------------ replan oracle
\* TestingKnobs (ShouldReplan, OnDistflowSpec) are nil outside tests and are
\* not modelled.
\* The (node, span) assignments of a partitioning.
Assignment(parts) ==
    {<<parts[x[1]].SQLInstanceID, parts[x[1]].Spans[x[2]]>> :
        x \in {y \in (1 .. Len(parts)) \X (1 .. NumKeys) : y[2] <= Len(parts[y[1]].Spans)}}

ReplanOnChangedFractionNoDisable(th, old, new) ==
    Cardinality(Assignment(new) \ Assignment(old)) * 100 > th * Cardinality(Assignment(old))

\* sql.ReplanOnChangedFraction: replan when the threshold is not 0 and the
\* assignments the new partitioning adds or moves, as a fraction of the old
\* partitioning's assignments, exceed it.  th is in percent.
ReplanOnChangedFraction(th, old, new) ==
    /\ th # 0
    /\ Cardinality(Assignment(new) \ Assignment(old)) * 100 > th * Cardinality(Assignment(old))

Thresholds == {0 - 50, 0, 50}

\* ----------------------------------------------- execution and supervision
FlowTasks(g, plan) ==
    {[gen |-> g, kind |-> "aggregator", id |-> i] : i \in 1 .. Len(plan.AggregatorSpecs)}
        \cup {[gen |-> g, kind |-> "frontier", id |-> 0]}

groupVars == <<ctxCancelled, flowCancelled, execPlan, replanner, replannerErr, stopReplannerClosed,
               groupErr, resultRowsErr, lastCheck>>

\* ctxgroup.GoAndWait starts execPlan and the replanner.
StartGroup ==
    /\ pc = "GoAndWait"
    /\ execPlan = "idle"
    /\ execPlan' = "start"
    /\ replanner' = "running"
    /\ UNCHANGED <<gen, threshold, callerCancelled, ctxCancelled, flowCancelled, replannerErr,
                   stopReplannerClosed, groupErr, tasks, resultRowsErr, replanCount, lastCheck,
                   results, consumerReady>>
    /\ UNCHANGED <<planVars, trackedSpans, initialHighWater, frontierVars, sinkVars, eventVars, startVars>>

\* execPlan up to dsp.Run having set the flow up: one aggregator per
\* partition and the frontier run.
ExecPlanRun ==
    /\ execPlan = "start"
    /\ tasks' = tasks \cup FlowTasks(gen, p)
    /\ execPlan' = IF details.SinkURI # "" THEN "finishedSetup" ELSE "flowRunning"
    /\ UNCHANGED <<gen, threshold, callerCancelled, ctxCancelled, flowCancelled, replanner,
                   replannerErr, stopReplannerClosed, groupErr, resultRowsErr, replanCount,
                   lastCheck, results, consumerReady>>
    /\ UNCHANGED <<planVars, trackedSpans, initialHighWater, frontierVars, sinkVars, eventVars, startVars>>

\* finishedSetupFn: resultsCh <- tree.Datums(nil), once the consumer receives.
FinishedSetup ==
    /\ execPlan = "finishedSetup"
    /\ consumerReady
    /\ results' = Append(results, "nil")
    /\ execPlan' = "flowRunning"
    /\ UNCHANGED <<gen, threshold, callerCancelled, ctxCancelled, flowCancelled, replanner,
                   replannerErr, stopReplannerClosed, groupErr, tasks, resultRowsErr, replanCount,
                   lastCheck, consumerReady>>
    /\ UNCHANGED <<planVars, trackedSpans, initialHighWater, frontierVars, sinkVars, eventVars, startVars>>

\* An aggregator fails (it no longer owns a span, its node is gone): the error
\* reaches the receiver and the flow is torn down.
AggregatorFails(t) ==
    /\ t \in tasks
    /\ t.kind = "aggregator"
    /\ tasks' = tasks \ {t}
    /\ resultRowsErr' = IF resultRowsErr = "nil" THEN "OwnershipMismatch" ELSE resultRowsErr
    /\ flowCancelled' = TRUE
    /\ UNCHANGED <<gen, threshold, callerCancelled, ctxCancelled, execPlan, replanner,
                   replannerErr, stopReplannerClosed, groupErr, replanCount, lastCheck, results,
                   consumerReady>>
    /\ UNCHANGED <<planVars, trackedSpans, initialHighWater, frontierVars, sinkVars, eventVars, startVars>>

\* An aggregator finishes; the frontier finishes once its input is closed.
TaskDone(t) ==
    /\ t \in tasks
    /\ t.kind = "frontier" => ~ \E a \in tasks : a.gen = t.gen /\ a.kind = "aggregator"
    /\ t.kind = "frontier" => addRow.state = "idle"
    /\ tasks' = tasks \ {t}
    /\ UNCHANGED <<gen, threshold, callerCancelled, ctxCancelled, flowCancelled, execPlan,
                   replanner, replannerErr, stopReplannerClosed, groupErr, resultRowsErr,
                   replanCount, lastCheck, results, consumerReady>>
    /\ UNCHANGED <<planVars, trackedSpans, initialHighWater, frontierVars, sinkVars, eventVars, startVars>>

\* A task sees the cancellation and stops.
TaskCancelled(t) ==
    /\ t \in tasks
    /\ ctxCancelled \/ flowCancelled
    /\ t.kind = "frontier" => addRow.state = "idle"
    /\ tasks' = tasks \ {t}
    /\ resultRowsErr' = IF resultRowsErr = "nil" /\ ctxCancelled THEN "ContextCanceled"
                        ELSE resultRowsErr
    /\ UNCHANGED <<gen, threshold, callerCancelled, ctxCancelled, flowCancelled, execPlan,
                   replanner, replannerErr, stopReplannerClosed, groupErr, replanCount, lastCheck,
                   results, consumerReady>>
    /\ UNCHANGED <<planVars, trackedSpans, initialHighWater, frontierVars, sinkVars, eventVars, startVars>>

ExecPlanDoneNoWait ==
    /\ execPlan = "flowRunning"
    /\ execPlan' = "done"
    /\ stopReplannerClosed' = TRUE
    /\ groupErr' = IF groupErr = "nil" THEN resultRowsErr ELSE groupErr
    /\ ctxCancelled' = (ctxCancelled \/ resultRowsErr # "nil")
    /\ UNCHANGED <<gen, threshold, callerCancelled, flowCancelled, replanner, replannerErr,
                   tasks, resultRowsErr, replanCount, lastCheck, results, consumerReady>>
    /\ UNCHANGED <<planVars, trackedSpans, initialHighWater, frontierVars, sinkVars, eventVars, startVars>>

ExecPlanDoneNoStop ==
    /\ execPlan = "flowRunning"
    /\ ~ \E t \in tasks : t.gen = gen
    /\ execPlan' = "done"
    /\ groupErr' = IF groupErr = "nil" THEN resultRowsErr ELSE groupErr
    /\ ctxCancelled' = (ctxCancelled \/ resultRowsErr # "nil")
    /\ UNCHANGED <<gen, threshold, callerCancelled, flowCancelled, replanner, replannerErr,
                   stopReplannerClosed, tasks, resultRowsErr, replanCount, lastCheck, results,
                   consumerReady>>
    /\ UNCHANGED <<planVars, trackedSpans, initialHighWater, frontierVars, sinkVars, eventVars, startVars>>

ExecPlanDoneDropsError ==
    /\ execPlan = "flowRunning"
    /\ ~ \E t \in tasks : t.gen = gen
    /\ execPlan' = "done"
    /\ stopReplannerClosed' = TRUE
    /\ UNCHANGED <<gen, threshold, callerCancelled, ctxCancelled, flowCancelled, replanner,
                   replannerErr, groupErr, tasks, resultRowsErr, replanCount, lastCheck, results,
                   consumerReady>>
    /\ UNCHANGED <<planVars, trackedSpans, initialHighWater, frontierVars, sinkVars, eventVars, startVars>>

\* dsp.Run(...)() returns once the flow's tasks have all finished; execPlan
\* returns resultRows.Err() and its deferred stopReplanner() runs.  A non-nil
\* error is the group's error if it is the first, and cancels the group.
ExecPlanDone ==
    /\ execPlan = "flowRunning"
    /\ ~ \E t \in tasks : t.gen = gen
    /\ execPlan' = "done"
    /\ stopReplannerClosed' = TRUE
    /\ groupErr' = IF groupErr = "nil" THEN resultRowsErr ELSE groupErr
    /\ ctxCancelled' = (ctxCancelled \/ resultRowsErr # "nil")
    /\ UNCHANGED <<gen, threshold, callerCancelled, flowCancelled, replanner, replannerErr,
                   tasks, resultRowsErr, replanCount, lastCheck, results, consumerReady>>
    /\ UNCHANGED <<planVars, trackedSpans, initialHighWater, frontierVars, sinkVars, eventVars, startVars>>

\* The replanner's tick: the plan is built again on the cluster as it is now
\* and compared with the running plan; ErrPlanChanged if the oracle says so.
ReplannerTick ==
    /\ replanner = "running"
    /\ LET new == MakePlan(details, initialHighWater, checkpoint, trackedSpans, selectClause, owner)
           replan == ReplanOnChangedFraction(threshold, p.SpanPartitions, new.SpanPartitions)
       IN /\ lastCheck' = [Checked |-> TRUE,
                           Same |-> (new.SpanPartitions = p.SpanPartitions),
                           Replan |-> replan,
                           Changed |-> Cardinality(Assignment(new.SpanPartitions)
                                                      \ Assignment(p.SpanPartitions)),
                           Total |-> Cardinality(Assignment(p.SpanPartitions)),
                           TrackedSpans |-> new.ChangeFrontierSpec.TrackedSpans]
          /\ replanner' = IF replan THEN "done" ELSE "running"
          /\ replannerErr' = IF replan THEN "ErrPlanChanged" ELSE replannerErr
          /\ groupErr' = IF replan /\ groupErr = "nil" THEN "ErrPlanChanged" ELSE groupErr
          /\ ctxCancelled' = (ctxCancelled \/ replan)
    /\ UNCHANGED <<gen, threshold, callerCancelled, flowCancelled, execPlan, stopReplannerClosed,
                   tasks, resultRowsErr, replanCount, results, consumerReady>>
    /\ UNCHANGED <<planVars, trackedSpans, initialHighWater, frontierVars, sinkVars, eventVars, startVars>>

\* The replanner returns nil once stopReplanner() has been called.
ReplannerStopped ==
    /\ replanner = "running"
    /\ stopReplannerClosed
    /\ replanner' = "done"
    /\ UNCHANGED <<gen, threshold, callerCancelled, ctxCancelled, flowCancelled, execPlan,
                   replannerErr, stopReplannerClosed, groupErr, tasks, resultRowsErr, replanCount,
                   lastCheck, results, consumerReady>>
    /\ UNCHANGED <<planVars, trackedSpans, initialHighWater, frontierVars, sinkVars, eventVars, startVars>>

\* The replanner returns ctx.Err() once its context is done.
ReplannerCancelled ==
    /\ replanner = "running"
    /\ ctxCancelled
    /\ replanner' = "done"
    /\ replannerErr' = "ContextCanceled"
    /\ groupErr' = IF groupErr = "nil" THEN "ContextCanceled" ELSE groupErr
    /\ UNCHANGED <<gen, threshold, callerCancelled, ctxCancelled, flowCancelled, execPlan,
                   stopReplannerClosed, tasks, resultRowsErr, replanCount, lastCheck, results,
                   consumerReady>>
    /\ UNCHANGED <<planVars, trackedSpans, initialHighWater, frontierVars, sinkVars, eventVars, startVars>>

ReturnCountsEveryError ==
    /\ pc = "GoAndWait"
    /\ execPlan = "done"
    /\ replanner = "done"
    /\ err' = groupErr
    /\ replanCount' = IF groupErr # "nil" THEN replanCount + 1 ELSE replanCount
    /\ pc' = "returned"
    /\ UNCHANGED <<gen, threshold, callerCancelled, ctxCancelled, flowCancelled, execPlan,
                   replanner, replannerErr, stopReplannerClosed, groupErr, tasks, resultRowsErr,
                   lastCheck, results, consumerReady>>
    /\ UNCHANGED <<details, owner, checkpoint, tableDescs, selectClause, p>>
    /\ UNCHANGED <<trackedSpans, initialHighWater, frontierVars, sinkVars, eventVars, startVars>>

\* GoAndWait returns when both goroutines have; ReplanCount counts the
\* ErrPlanChanged results; the error is returned.
Return ==
    /\ pc = "GoAndWait"
    /\ execPlan = "done"
    /\ replanner = "done"
    /\ err' = groupErr
    /\ replanCount' = IF groupErr = "ErrPlanChanged" THEN replanCount + 1 ELSE replanCount
    /\ pc' = "returned"
    /\ UNCHANGED <<gen, threshold, callerCancelled, ctxCancelled, flowCancelled, execPlan,
                   replanner, replannerErr, stopReplannerClosed, groupErr, tasks, resultRowsErr,
                   lastCheck, results, consumerReady>>
    /\ UNCHANGED <<details, owner, checkpoint, tableDescs, selectClause, p>>
    /\ UNCHANGED <<trackedSpans, initialHighWater, frontierVars, sinkVars, eventVars, startVars>>

\* The job's retry loop calls startDistChangefeed again after a plan change or
\* a retryable failure: the next generation.
Restart ==
    /\ pc = "returned"
    /\ err \in {"ErrPlanChanged", "OwnershipMismatch"}
    /\ ~ callerCancelled
    /\ gen < MaxGenerations
    /\ gen' = gen + 1
    /\ pc' = "fetchTableDescriptors"
    /\ err' = "nil"
    /\ p' = NoPlan
    /\ tableDescs' = <<>>
    /\ trackedSpans' = <<>>
    /\ selectClause' = ""
    /\ ctxCancelled' = FALSE
    /\ flowCancelled' = FALSE
    /\ execPlan' = "idle"
    /\ replanner' = "idle"
    /\ replannerErr' = "nil"
    /\ stopReplannerClosed' = FALSE
    /\ groupErr' = "nil"
    /\ resultRowsErr' = "nil"
    /\ lastCheck' = NoCheck
    /\ UNCHANGED <<details, owner, checkpoint, initialHighWater, threshold, callerCancelled, tasks,
                   replanCount, results, consumerReady>>
    /\ UNCHANGED <<frontierVars, sinkVars, eventVars, startVars>>

\* ------------------------------------------------------------- environment
CallerCancels ==
    /\ pc = "GoAndWait"
    /\ ~ callerCancelled
    /\ callerCancelled' = TRUE
    /\ ctxCancelled' = TRUE
    /\ UNCHANGED <<gen, threshold, flowCancelled, execPlan, replanner, replannerErr,
                   stopReplannerClosed, groupErr, tasks, resultRowsErr, replanCount, lastCheck,
                   results, consumerReady>>
    /\ UNCHANGED <<planVars, trackedSpans, initialHighWater, frontierVars, sinkVars, eventVars, startVars>>

ConsumerStops ==
    /\ pc = "GoAndWait"
    /\ execPlan # "done"
    /\ consumerReady
    /\ consumerReady' = FALSE
    /\ UNCHANGED <<gen, threshold, callerCancelled, ctxCancelled, flowCancelled, execPlan,
                   replanner, replannerErr, stopReplannerClosed, groupErr, tasks, resultRowsErr,
                   replanCount, lastCheck, results>>
    /\ UNCHANGED <<planVars, trackedSpans, initialHighWater, frontierVars, sinkVars, eventVars, startVars>>

\* Ranges move between nodes while the flow runs.
TopologyChange ==
    /\ replanner = "running"
    /\ owner' \in Topologies(details.Targets) \ {owner}
    /\ UNCHANGED <<details, checkpoint, pc, tableDescs, selectClause, err, p>>
    /\ UNCHANGED <<flowVars, trackedSpans, initialHighWater, frontierVars, sinkVars, eventVars, startVars>>

InitFlow ==
    /\ details \in [Select : {""}, SinkURI : {"", "sink"}, Targets : {{1}}]
    /\ owner \in Topologies(details.Targets)
    /\ checkpoint = [Spans |-> <<>>, Timestamp |-> 0]
    /\ initialHighWater = 0
    /\ pc = "fetchTableDescriptors"
    /\ tableDescs = <<>>
    /\ trackedSpans = <<>>
    /\ selectClause = ""
    /\ err = "nil"
    /\ p = NoPlan
    /\ threshold \in Thresholds
    /\ FlowIdle
    /\ frontier = <<>>
    /\ resolved = 0
    /\ emitted = <<>>
    /\ persisted = <<>>
    /\ reported = [k \in Keys |-> 0]
    /\ SinkIdle
    /\ EventsIdle
    /\ StartArgsGiven

NextFlow ==
    \/ FetchTableDescriptors
    \/ FetchSpansForTables
    \/ BuildPlan
    \/ StartGroup
    \/ ExecPlanRun
    \/ FinishedSetup
    \/ \E t \in tasks : AggregatorFails(t)
    \/ \E t \in tasks : TaskDone(t)
    \/ \E t \in tasks : TaskCancelled(t)
    \/ ExecPlanDone
    \/ ReplannerTick
    \/ ReplannerStopped
    \/ ReplannerCancelled
    \/ Return
    \/ Restart
    \/ CallerCancels
    \/ ConsumerStops
    \/ TopologyChange

SpecFlow == InitFlow /\ [][NextFlow]_vars

\* ------------------------------------------------- changefeedResultWriter
MaxRows == 2

\* AddRow up to its select: the row is copied (append(tree.Datums(nil), row...))
\* and the call waits for the channel or the context.  The producer has put
\* row v in its buffer, which it uses again for every row.
AddRowNoCopy(v) ==
    /\ execPlan = "flowRunning"
    /\ \E t \in tasks : t.kind = "frontier"
    /\ resultRowsErr = "nil"
    /\ addRow.state = "idle"
    /\ Len(calls) < MaxRows
    /\ heap' = [heap EXCEPT ![BufAddr] = v]
    /\ addRow' = [state |-> "select", row |-> BufAddr]
    /\ calls' = Append(calls, [value |-> v, row |-> BufAddr, ret |-> "pending"])
    /\ UNCHANGED <<planVars, trackedSpans, initialHighWater, frontierVars, flowVars, eventVars, startVars>>

AddRow(v) ==
    /\ execPlan = "flowRunning"
    /\ \E t \in tasks : t.kind = "frontier"
    /\ resultRowsErr = "nil"
    /\ addRow.state = "idle"
    /\ Len(calls) < MaxRows
    /\ heap' = Append([heap EXCEPT ![BufAddr] = v], v)
    /\ addRow' = [state |-> "select", row |-> Len(heap) + 1]
    /\ calls' = Append(calls, [value |-> v, row |-> Len(heap) + 1, ret |-> "pending"])
    /\ UNCHANGED <<planVars, trackedSpans, initialHighWater, frontierVars, flowVars, eventVars, startVars>>

AddRowSendNonBlocking ==
    /\ addRow.state = "select"
    /\ results' = IF consumerReady THEN Append(results, addRow.row) ELSE results
    /\ addRow' = [state |-> "idle", row |-> 0]
    /\ calls' = [calls EXCEPT ![Len(calls)].ret = "nil"]
    /\ UNCHANGED <<gen, threshold, callerCancelled, ctxCancelled, flowCancelled, execPlan,
                   replanner, replannerErr, stopReplannerClosed, groupErr, tasks, resultRowsErr,
                   replanCount, lastCheck, consumerReady>>
    /\ UNCHANGED <<planVars, trackedSpans, initialHighWater, frontierVars, heap, eventVars, startVars>>

\* case w.rowsCh <- row: the consumer takes the row; AddRow returns nil.
AddRowSend ==
    /\ addRow.state = "select"
    /\ consumerReady
    /\ results' = Append(results, addRow.row)
    /\ addRow' = [state |-> "idle", row |-> 0]
    /\ calls' = [calls EXCEPT ![Len(calls)].ret = "nil"]
    /\ UNCHANGED <<gen, threshold, callerCancelled, ctxCancelled, flowCancelled, execPlan,
                   replanner, replannerErr, stopReplannerClosed, groupErr, tasks, resultRowsErr,
                   replanCount, lastCheck, consumerReady>>
    /\ UNCHANGED <<planVars, trackedSpans, initialHighWater, frontierVars, heap, eventVars, startVars>>

\* case <-ctx.Done(): AddRow returns ctx.Err(); the receiver records the error
\* and the flow is torn down.
AddRowCancelled ==
    /\ addRow.state = "select"
    /\ ctxCancelled
    /\ addRow' = [state |-> "idle", row |-> 0]
    /\ calls' = [calls EXCEPT ![Len(calls)].ret = "ContextCanceled"]
    /\ resultRowsErr' = IF resultRowsErr = "nil" THEN "ContextCanceled" ELSE resultRowsErr
    /\ flowCancelled' = TRUE
    /\ UNCHANGED <<gen, threshold, callerCancelled, ctxCancelled, execPlan, replanner,
                   replannerErr, stopReplannerClosed, groupErr, tasks, replanCount, lastCheck,
                   results, consumerReady>>
    /\ UNCHANGED <<planVars, trackedSpans, initialHighWater, frontierVars, heap, eventVars, startVars>>

\* A sinkless flow that is running, its consumer receiving.
InitSink ==
    /\ details \in [Select : {""}, SinkURI : {""}, Targets : {{1}}]
    /\ owner \in Topologies(details.Targets)
    /\ checkpoint = [Spans |-> <<>>, Timestamp |-> 0]
    /\ initialHighWater = 0
    /\ pc = "GoAndWait"
    /\ tableDescs = EachTableID(details.Targets)
    /\ trackedSpans = PrimaryIndexSpans(tableDescs)
    /\ selectClause = ""
    /\ err = "nil"
    /\ p = MakePlan(details, initialHighWater, checkpoint, trackedSpans, selectClause, owner)
    /\ threshold = 0
    /\ gen = 1
    /\ callerCancelled = FALSE
    /\ ctxCancelled = FALSE
    /\ flowCancelled = FALSE
    /\ execPlan = "flowRunning"
    /\ replanner = "running"
    /\ replannerErr = "nil"
    /\ stopReplannerClosed = FALSE
    /\ groupErr = "nil"
    /\ tasks = FlowTasks(gen, p)
    /\ resultRowsErr = "nil"
    /\ replanCount = 0
    /\ lastCheck = NoCheck
    /\ results = <<>>
    /\ consumerReady = TRUE
    /\ frontier = MakeFrontier(p.ChangeFrontierSpec.TrackedSpans, initialHighWater)
    /\ resolved = Frontier(frontier)
    /\ emitted = <<>>
    /\ persisted = <<>>
    /\ reported = [k \in Keys |-> initialHighWater]
    /\ SinkIdle
    /\ EventsIdle
    /\ StartArgsGiven

NextSink ==
    \/ \E v \in Rows : AddRow(v)
    \/ AddRowSend
    \/ AddRowCancelled
    \/ \E t \in tasks : AggregatorFails(t)
    \/ \E t \in tasks : TaskDone(t)
    \/ \E t \in tasks : TaskCancelled(t)
    \/ ExecPlanDone
    \/ ReplannerStopped
    \/ ReplannerCancelled
    \/ Return
    \/ CallerCancels
    \/ ConsumerStops

SpecSink == InitSink /\ [][NextSink]_vars

\* ------------------------------------------ one generation, with its rows
\* startDistChangefeed at GoAndWait, the plan built: with or without a sink,
\* on any range ownership, with any threshold.
InitGeneration ==
    /\ details \in [Select : {""}, SinkURI : {"", "sink"}, Targets : {{1}}]
    /\ owner \in Topologies(details.Targets)
    /\ checkpoint = [Spans |-> <<>>, Timestamp |-> 0]
    /\ initialHighWater = 0
    /\ pc = "GoAndWait"
    /\ tableDescs = EachTableID(details.Targets)
    /\ trackedSpans = PrimaryIndexSpans(tableDescs)
    /\ selectClause = ""
    /\ err = "nil"
    /\ p = MakePlan(details, initialHighWater, checkpoint, trackedSpans, selectClause, owner)
    /\ threshold \in Thresholds
    /\ FlowIdle
    /\ frontier = MakeFrontier(p.ChangeFrontierSpec.TrackedSpans, initialHighWater)
    /\ resolved = Frontier(frontier)
    /\ emitted = <<>>
    /\ persisted = <<>>
    /\ reported = [k \in Keys |-> initialHighWater]
    /\ SinkIdle
    /\ EventsIdle
    /\ StartArgsGiven

\* The steps of startDistChangefeed and of the tasks it runs.
GenerationStep ==
    \/ StartGroup
    \/ ExecPlanRun
    \/ FinishedSetup
    \/ \E v \in Rows : AddRow(v)
    \/ AddRowSend
    \/ AddRowCancelled
    \/ \E t \in tasks : AggregatorFails(t)
    \/ \E t \in tasks : TaskDone(t)
    \/ \E t \in tasks : TaskCancelled(t)
    \/ ExecPlanDone
    \/ ReplannerTick
    \/ ReplannerStopped
    \/ ReplannerCancelled
    \/ Return

NextGeneration ==
    \/ GenerationStep
    \/ CallerCancels
    \/ ConsumerStops
    \/ TopologyChange

SpecGeneration == InitGeneration /\ [][NextGeneration]_vars

\* --------------------------------------------------- frontier: processor
ResolvedSpanUpdateAlwaysEmits(sp, ts) ==
    /\ frontier' = Forward(frontier, sp, ts)
    /\ resolved' = Frontier(frontier')
    /\ emitted' = Append(emitted, resolved')
    /\ persisted' = Append(persisted, resolved')
    /\ reported' = [k \in Keys |->
                      IF k \in SpanKeys(sp) /\ k \in SpansKeys(trackedSpans)
                      THEN Max(reported[k], ts) ELSE reported[k]]

\* What a (span, timestamp) marker does to the frontier's state: the structure
\* is forwarded and the resolved timestamp recomputed; if it advanced it is
\* emitted and a checkpoint is persisted.
ResolvedSpanUpdate(sp, ts) ==
    /\ frontier' = Forward(frontier, sp, ts)
    /\ resolved' = Frontier(frontier')
    /\ emitted' = IF Frontier(frontier) < resolved' THEN Append(emitted, resolved') ELSE emitted
    /\ persisted' = IF Frontier(frontier) < resolved' THEN Append(persisted, resolved') ELSE persisted
    /\ reported' = [k \in Keys |->
                      IF k \in SpanKeys(sp) /\ k \in SpansKeys(trackedSpans)
                      THEN Max(reported[k], ts) ELSE reported[k]]

\* A (span, timestamp) marker from some aggregator reaches the frontier of the
\* running flow.
ForwardResolvedSpan(sp, ts) ==
    /\ ResolvedSpanUpdate(sp, ts)
    /\ UNCHANGED <<trackedSpans, initialHighWater>>
    /\ UNCHANGED planVars
    /\ UNCHANGED flowVars
    /\ UNCHANGED sinkVars
    /\ UNCHANGED eventVars
    /\ UNCHANGED startVars

InitFrontier ==
    /\ details \in [Select : {""}, SinkURI : {""}, Targets : (SUBSET Tables) \ {{}}]
    /\ owner = [k \in Keys |-> GatewayID]
    /\ checkpoint = [Spans |-> <<>>, Timestamp |-> 0]
    /\ pc = "GoAndWait"
    /\ tableDescs = EachTableID(details.Targets)
    /\ trackedSpans = PrimaryIndexSpans(tableDescs)
    /\ selectClause = ""
    /\ err = "nil"
    /\ initialHighWater \in Timestamps
    /\ p = MakePlan(details, initialHighWater, checkpoint, trackedSpans, selectClause, owner)
    /\ threshold = 0
    /\ gen = 1
    /\ callerCancelled = FALSE
    /\ ctxCancelled = FALSE
    /\ flowCancelled = FALSE
    /\ execPlan = "flowRunning"
    /\ replanner = "running"
    /\ replannerErr = "nil"
    /\ stopReplannerClosed = FALSE
    /\ groupErr = "nil"
    /\ tasks = FlowTasks(gen, p)
    /\ resultRowsErr = "nil"
    /\ replanCount = 0
    /\ lastCheck = NoCheck
    /\ results = <<>>
    /\ consumerReady = TRUE
    /\ frontier = MakeFrontier(p.ChangeFrontierSpec.TrackedSpans, initialHighWater)
    /\ resolved = Frontier(frontier)
    /\ emitted = <<>>
    /\ persisted = <<>>
    /\ reported = [k \in Keys |-> initialHighWater]
    /\ SinkIdle
    /\ EventsIdle
    /\ StartArgsGiven

NextFrontier == \E sp \in AllSpans, ts \in Timestamps : ForwardResolvedSpan(sp, ts)

SpecFrontier == InitFrontier /\ [][NextFrontier]_vars

\* ------------------------------------------- frontier: events and markers
MaxEmit == 3

\* The change events of aggregator i in a stream, in stream order.
RECURSIVE EventsOf(_, _)
EventsOf(stream, i) ==
    IF stream = <<>> THEN <<>>
    ELSE IF Head(stream).kind = "event" /\ Head(stream).agg = i
         THEN <<Head(stream).val>> \o EventsOf(Tail(stream), i)
         ELSE EventsOf(Tail(stream), i)

RECURSIVE Emissions(_)
Emissions(byAgg) == IF byAgg = <<>> THEN 0 ELSE Len(Head(byAgg)) + Emissions(Tail(byAgg))

\* The timestamp of the latest marker of aggregator i in a stream (0: none).
RECURSIVE LastMarkerTs(_, _)
LastMarkerTs(stream, i) ==
    IF stream = <<>> THEN 0
    ELSE IF stream[Len(stream)].kind = "marker" /\ stream[Len(stream)].agg = i
         THEN stream[Len(stream)].ts
         ELSE LastMarkerTs(SubSeq(stream, 1, Len(stream) - 1), i)

\* Aggregator i emits a change event: it arrives at the frontier's input
\* behind everything that arrived before.
AggregatorEmitsEvent(i, v) ==
    /\ [gen |-> gen, kind |-> "aggregator", id |-> i] \in tasks
    /\ Emissions(emittedBy) < MaxEmit
    /\ LET x == [kind |-> "event", agg |-> i, val |-> v, span |-> MkSpan(0, 0), ts |-> 0]
       IN /\ emittedBy' = [emittedBy EXCEPT ![i] = Append(@, x)]
          /\ frontierIn' = Append(frontierIn, x)
    /\ UNCHANGED forwarded
    /\ UNCHANGED <<planVars, trackedSpans, initialHighWater, frontierVars, flowVars, sinkVars, startVars>>

\* Aggregator i emits a resolved-timestamp marker for its j-th watch, not
\* below its earlier markers.
AggregatorEmitsMarker(i, j, ts) ==
    /\ [gen |-> gen, kind |-> "aggregator", id |-> i] \in tasks
    /\ j \in 1 .. Len(p.AggregatorSpecs[i].Watches)
    /\ Emissions(emittedBy) < MaxEmit
    /\ ts >= p.AggregatorSpecs[i].Watches[j].InitialResolved
    /\ ts >= LastMarkerTs(emittedBy[i], i)
    /\ LET x == [kind |-> "marker", agg |-> i, val |-> "",
                 span |-> p.AggregatorSpecs[i].Watches[j].Span, ts |-> ts]
       IN /\ emittedBy' = [emittedBy EXCEPT ![i] = Append(@, x)]
          /\ frontierIn' = Append(frontierIn, x)
    /\ UNCHANGED forwarded
    /\ UNCHANGED <<planVars, trackedSpans, initialHighWater, frontierVars, flowVars, sinkVars, startVars>>

FrontierReceivesLast ==
    /\ frontierIn # <<>>
    /\ [gen |-> gen, kind |-> "frontier", id |-> 0] \in tasks
    /\ LET x == frontierIn[Len(frontierIn)]
       IN IF x.kind = "event"
          THEN /\ forwarded' = Append(forwarded, x)
               /\ UNCHANGED frontierVars
          ELSE /\ ResolvedSpanUpdate(x.span, x.ts)
               /\ UNCHANGED forwarded
    /\ frontierIn' = SubSeq(frontierIn, 1, Len(frontierIn) - 1)
    /\ UNCHANGED emittedBy
    /\ UNCHANGED <<planVars, trackedSpans, initialHighWater, flowVars, sinkVars, startVars>>

\* The frontier takes the next item of its input: an event is passed
\* downstream as it is, a marker updates the frontier's state.
FrontierReceives ==
    /\ frontierIn # <<>>
    /\ [gen |-> gen, kind |-> "frontier", id |-> 0] \in tasks
    /\ LET x == Head(frontierIn)
       IN IF x.kind = "event"
          THEN /\ forwarded' = Append(forwarded, x)
               /\ UNCHANGED frontierVars
          ELSE /\ ResolvedSpanUpdate(x.span, x.ts)
               /\ UNCHANGED forwarded
    /\ frontierIn' = Tail(frontierIn)
    /\ UNCHANGED emittedBy
    /\ UNCHANGED <<planVars, trackedSpans, initialHighWater, flowVars, sinkVars, startVars>>

\* A flow with a sink that is running, on any range ownership.
InitEvents ==
    /\ details \in [Select : {""}, SinkURI : {"sink"}, Targets : {{1}}]
    /\ owner \in Topologies(details.Targets)
    /\ checkpoint = [Spans |-> <<>>, Timestamp |-> 0]
    /\ initialHighWater = 0
    /\ pc = "GoAndWait"
    /\ tableDescs = EachTableID(details.Targets)
    /\ trackedSpans = PrimaryIndexSpans(tableDescs)
    /\ selectClause = ""
    /\ err = "nil"
    /\ p = MakePlan(details, initialHighWater, checkpoint, trackedSpans, selectClause, owner)
    /\ threshold = 0
    /\ gen = 1
    /\ callerCancelled = FALSE
    /\ ctxCancelled = FALSE
    /\ flowCancelled = FALSE
    /\ execPlan = "flowRunning"
    /\ replanner = "running"
    /\ replannerErr = "nil"
    /\ stopReplannerClosed = FALSE
    /\ groupErr = "nil"
    /\ tasks = FlowTasks(gen, p)
    /\ resultRowsErr = "nil"
    /\ replanCount = 0
    /\ lastCheck = NoCheck
    /\ results = <<"nil">>
    /\ consumerReady = TRUE
    /\ frontier = MakeFrontier(p.ChangeFrontierSpec.TrackedSpans, initialHighWater)
    /\ resolved = Frontier(frontier)
    /\ emitted = <<>>
    /\ persisted = <<>>
    /\ reported = [k \in Keys |-> initialHighWater]
    /\ SinkIdle
    /\ EventsIdle
    /\ StartArgsGiven

NextEvents ==
    \/ \E i \in 1 .. Len(p.AggregatorSpecs), v \in DatumValues : AggregatorEmitsEvent(i, v)
    \/ \E i \in 1 .. Len(p.AggregatorSpecs), j \in 1 .. NumKeys, ts \in Timestamps :
          AggregatorEmitsMarker(i, j, ts)
    \/ FrontierReceives

SpecEvents == InitEvents /\ [][NextEvents]_vars

\* ------------------------------------------------------------------ claims
\* C1 (watermark monotonicity): whatever markers arrive, in whatever order,
\* the sequence of resolved timestamps the frontier has emitted is
\* non-decreasing.
WatermarkMonotone ==
    \A i \in 1 .. (Len(emitted) - 1) : emitted[i] <= emitted[i + 1]

\* Two advances have been emitted.
WatermarkMonotoneWitness == Len(emitted) >= 2

SetMin(S) == CHOOSE m \in S : \A x \in S : m <= x

\* C2: after every marker the global resolved timestamp is the minimum, over
\* the tracked keys, of the latest timestamp recorded for each of them.
ResolvedIsMin ==
    resolved = SetMin({reported[k] : k \in SpansKeys(trackedSpans)})

\* The scenario {[a,m),[m,z)} from H0 with markers T1 < T2 < T3: the watermark
\* went to T1 and then to T2, with [a,m) at T3 and [m,z) at T2.
ResolvedIsMinWitness ==
    /\ trackedSpans = <<MkSpan(0, 2), MkSpan(2, 4)>>
    /\ initialHighWater = 0
    /\ emitted = <<1, 2>>
    /\ frontier = <<[Key |-> 0, EndKey |-> 2, Ts |-> 3], [Key |-> 2, EndKey |-> 4, Ts |-> 2]>>
    /\ resolved = 2

\* C3 (coverage): the frontier's sub-intervals are non-empty, ordered and
\* pairwise non-overlapping, and their union is exactly the tracked span set.
CoverageInvariant ==
    /\ \A i \in 1 .. Len(frontier) : frontier[i].Key < frontier[i].EndKey
    /\ \A i \in 1 .. (Len(frontier) - 1) : frontier[i].EndKey <= frontier[i + 1].Key
    /\ SpansKeys(frontier) = SpansKeys(trackedSpans)

\* A marker that partially overlapped a sub-interval has split it.
CoverageWitness ==
    /\ Len(frontier) > Len(trackedSpans)
    /\ \E i \in 1 .. Len(frontier) : frontier[i].Ts > initialHighWater

AllWatches ==
    {p.AggregatorSpecs[i].Watches[j] :
        <<i, j>> \in {x \in (1 .. Len(p.AggregatorSpecs)) \X (1 .. NumKeys) :
                        x[2] <= Len(p.AggregatorSpecs[x[1]].Watches)}}

\* C4 (checkpoint resume): with checkpoint (S, T) and high-water H < T, in
\* every aggregator of the built plan a watch whose span lies inside the union
\* of S starts at T and a watch whose span does not starts at H.
CheckpointResume ==
    (p.Built /\ initialHighWater < checkpoint.Timestamp) =>
        \A i \in 1 .. Len(p.AggregatorSpecs) :
            \A j \in 1 .. Len(p.AggregatorSpecs[i].Watches) :
                LET w == p.AggregatorSpecs[i].Watches[j]
                IN IF SpanKeys(w.Span) \subseteq SpansKeys(checkpoint.Spans)
                   THEN w.InitialResolved = checkpoint.Timestamp
                   ELSE w.InitialResolved = initialHighWater

\* A plan with two aggregators, H < T, where one watch resumes from the
\* checkpoint (its span covered only by two checkpoint spans together) and
\* another, partially covered, starts at the high-water.
CheckpointResumeWitness ==
    /\ p.Built
    /\ initialHighWater < checkpoint.Timestamp
    /\ Len(p.AggregatorSpecs) = 2
    /\ \E w \in AllWatches :
          /\ w.InitialResolved = checkpoint.Timestamp
          /\ \A i \in 1 .. Len(checkpoint.Spans) :
                ~ (SpanKeys(w.Span) \subseteq SpanKeys(checkpoint.Spans[i]))
    /\ \E w \in AllWatches :
          /\ w.InitialResolved = initialHighWater
          /\ SpanKeys(w.Span) \cap SpansKeys(checkpoint.Spans) # {}

PartitionSpanList ==
    {<<i, j>> \in (1 .. Len(p.SpanPartitions)) \X (1 .. NumKeys) :
        j <= Len(p.SpanPartitions[i].Spans)}

\* C5 (partition completeness): the spans of the plan's partitions together
\* cover exactly the tracked spans, no key lies in two of them, and the
\* watches of all aggregators cover exactly the tracked spans as well.
PartitionComplete ==
    p.Built =>
        /\ UNION {SpanKeys(p.SpanPartitions[x[1]].Spans[x[2]]) : x \in PartitionSpanList}
              = SpansKeys(trackedSpans)
        /\ \A x \in PartitionSpanList, y \in PartitionSpanList :
              x # y => SpanKeys(p.SpanPartitions[x[1]].Spans[x[2]])
                         \cap SpanKeys(p.SpanPartitions[y[1]].Spans[y[2]]) = {}
        /\ UNION {SpanKeys(w.Span) : w \in AllWatches} = SpansKeys(trackedSpans)

\* Two tables, each cut between two nodes.
PartitionCompleteWitness ==
    /\ p.Built
    /\ Len(trackedSpans) = 2
    /\ Len(p.SpanPartitions) = 2
    /\ \A i \in 1 .. 2 : Len(p.SpanPartitions[i].Spans) = 2
    /\ \E i \in 1 .. 2 : p.SpanPartitions[i].SQLInstanceID # GatewayID

\* C6: without a sink the plan has exactly one partition, on the gateway,
\* holding all tracked spans, hence one aggregator; with a sink the partitions
\* are an ownership-based partitioning of the tracked spans.
SinklessSinglePartition ==
    p.Built =>
        IF details.SinkURI = ""
        THEN /\ p.SpanPartitions = <<[SQLInstanceID |-> GatewayID, Spans |-> trackedSpans]>>
             /\ Len(p.AggregatorSpecs) = 1
             /\ p.AggregatorPlacement = <<GatewayID>>
        ELSE p.SpanPartitions = PartitionSpans(trackedSpans, owner)

\* A sinkless plan over two tables, some of whose ranges another node owns.
SinklessSinglePartitionWitness ==
    /\ p.Built
    /\ details.SinkURI = ""
    /\ Len(trackedSpans) = 2
    /\ Len(p.AggregatorSpecs) = 1
    /\ \E k \in SpansKeys(trackedSpans) : owner[k] # GatewayID

\* C7 (filter / multi-target rejection): a filter with two or more target
\* tables ends startDistChangefeed with the invalid-parameter error (the
\* spec's InvalidRequest), no spans and no plan; without a filter every table
\* contributes its primary index span and span resolution does not fail.
FilterMultiTargetRejected ==
    /\ (details.Select # "" /\ Len(tableDescs) >= 2 /\ pc # "fetchSpansForTables") =>
          /\ pc = "returned"
          /\ err = "InvalidParameterValue"
          /\ trackedSpans = <<>>
          /\ ~ p.Built
    /\ (details.Select = "" /\ Len(tableDescs) >= 1 /\ pc # "fetchSpansForTables") =>
          /\ err \notin {"InvalidParameterValue", "FilterError"}
          /\ Len(trackedSpans) = Len(tableDescs)
          /\ \A i \in 1 .. Len(tableDescs) : trackedSpans[i] = PrimaryIndexSpan(tableDescs[i])

\* A filter over two tables has been rejected.
FilterMultiTargetRejectedWitness ==
    /\ details.Select # ""
    /\ Len(tableDescs) = 2
    /\ pc = "returned"
    /\ err = "InvalidParameterValue"

\* C8: no two generations of the flow run concurrently: tasks run only while
\* startDistChangefeed is inside GoAndWait, and every running task belongs to
\* the current generation; planning is re-entered with no task left.
SingleGeneration ==
    /\ \A t \in tasks : t.gen = gen
    /\ tasks # {} => pc = "GoAndWait"

\* After a replan the second generation's tasks are running.
SingleGenerationWitness ==
    /\ gen = 2
    /\ replanCount = 1
    /\ \E t \in tasks : t.kind = "aggregator"
    /\ \E t \in tasks : t.kind = "frontier"

\* C9: execPlan and the replanner are siblings: execPlan finishing stops the
\* replanner, a failed execPlan or a replanner that finishes first cancels the
\* group's context, and startDistChangefeed returns from GoAndWait only when
\* both have finished.
SiblingsJoined ==
    /\ pc = "returned" =>
          \/ execPlan = "idle" /\ replanner = "idle"
          \/ execPlan = "done" /\ replanner = "done"
    /\ execPlan = "done" => stopReplannerClosed
    /\ (execPlan = "done" /\ resultRowsErr # "nil") => ctxCancelled
    /\ (replanner = "done" /\ execPlan # "done") => ctxCancelled

\* The replanner signalled first, execution was cancelled, and both were
\* awaited before the return.
SiblingsJoinedWitness ==
    /\ pc = "returned"
    /\ err = "ErrPlanChanged"
    /\ resultRowsErr = "ContextCanceled"
    /\ execPlan = "done"
    /\ replanner = "done"

\* C10 (replan idempotence under no skew): a check of the replanner that
\* recomputes the partitioning the running plan was built from does not signal
\* a plan change.
ReplanIdempotent == lastCheck.Same => ~ lastCheck.Replan

ReplanCounted ==
    [][IF pc = "GoAndWait" /\ pc' = "returned"
       THEN /\ err' = groupErr
            /\ replanCount' = IF err' = "ErrPlanChanged" THEN replanCount + 1 ELSE replanCount
       ELSE replanCount' = replanCount]_vars

\* Two generations both ended with ErrPlanChanged and were both counted.
ReplanCountedWitness ==
    /\ pc = "returned"
    /\ gen = 2
    /\ err = "ErrPlanChanged"
    /\ replanCount = 2

Delivered(c) == c.ret = "nil"

\* C13: AddRow stays in its select until the consumer takes the row or the
\* context is done.  A call that returned nil handed its row to the channel
\* exactly once; a call that returned an error (or has not returned) handed
\* nothing over, the error is the context's, the context is cancelled, the
\* error is the result writer's error and startDistChangefeed does not return
\* nil.
AddRowContract ==
    /\ [](/\ \A i \in 1 .. Len(calls) :
                LET handed == Cardinality({j \in 1 .. Len(results) : results[j] = calls[i].row})
                IN /\ calls[i].ret = "nil" => handed = 1
                   /\ calls[i].ret # "nil" => handed = 0
                   /\ calls[i].ret \in {"pending", "nil", "ContextCanceled"}
                   /\ calls[i].ret = "ContextCanceled" =>
                         /\ ctxCancelled
                         /\ resultRowsErr # "nil"
                         /\ execPlan = "done" => groupErr # "nil"
                         /\ pc = "returned" => err # "nil"
           /\ Len(results) = Len(SelectSeq(calls, Delivered)))
    /\ [][(addRow.state = "select" /\ addRow'.state = "idle") =>
             \/ consumerReady /\ calls'[Len(calls)].ret = "nil"
             \/ ctxCancelled /\ calls'[Len(calls)].ret = "ContextCanceled"]_vars

\* One row was handed over; the next call was blocked with no consumer left,
\* failed when the caller cancelled, and the flow returned the error.
AddRowContractWitness ==
    /\ Len(calls) = 2
    /\ calls[1].ret = "nil"
    /\ calls[2].ret = "ContextCanceled"
    /\ ~ consumerReady
    /\ Len(results) = 1
    /\ pc = "returned"
    /\ err = "ContextCanceled"

\* C14: every row the consumer has received holds the values it had when it
\* was passed to AddRow, whatever the producer has done with its buffer since.
RowsStable ==
    \A j \in 1 .. Len(results) :
        heap[results[j]] = SelectSeq(calls, Delivered)[j].value

\* The consumer holds a row and the producer's buffer has since been
\* overwritten with a different row.
RowsStableWitness ==
    /\ Len(results) >= 1
    /\ heap[BufAddr] # heap[results[1]]
    /\ Len(calls) = 2

\* C15: a built plan has one aggregator per partition, in partition order,
\* placed on the partition's node and holding one watch per span of the
\* partition in the same order; and one frontier, on the gateway, that every
\* aggregator feeds.
PlanShape ==
    p.Built =>
        /\ Len(p.AggregatorSpecs) = Len(p.SpanPartitions)
        /\ Len(p.AggregatorPlacement) = Len(p.SpanPartitions)
        /\ \A i \in 1 .. Len(p.SpanPartitions) :
              /\ p.AggregatorPlacement[i] = p.SpanPartitions[i].SQLInstanceID
              /\ Len(p.AggregatorSpecs[i].Watches) = Len(p.SpanPartitions[i].Spans)
              /\ \A j \in 1 .. Len(p.SpanPartitions[i].Spans) :
                    p.AggregatorSpecs[i].Watches[j].Span = p.SpanPartitions[i].Spans[j]
        /\ p.FrontierNode = GatewayID
        /\ p.FrontierInputs = 1 .. Len(p.AggregatorSpecs)

\* Two aggregators on different nodes, one of them with two watches.
PlanShapeWitness ==
    /\ p.Built
    /\ Len(p.AggregatorSpecs) = 2
    /\ p.AggregatorPlacement[1] # p.AggregatorPlacement[2]
    /\ \E i \in 1 .. 2 : Len(p.AggregatorSpecs[i].Watches) = 2

\* C16: the frontier spec of every plan tracks the whole tracked span set, the
\* primary index spans of the targets, however the spans are partitioned; the
\* plan the replanner builds again has the same frontier tracked spans as the
\* running plan, and so has the plan of the next generation.
FrontierSpansFixed ==
    /\ p.Built =>
          /\ p.ChangeFrontierSpec.TrackedSpans = trackedSpans
          /\ p.ChangeFrontierSpec.TrackedSpans = PrimaryIndexSpans(EachTableID(details.Targets))
    /\ lastCheck.Checked => lastCheck.TrackedSpans = p.ChangeFrontierSpec.TrackedSpans

\* In the second generation, with the tracked span cut between two
\* aggregators, the replanner has built a plan with another partitioning.
FrontierSpansFixedWitness ==
    /\ gen = 2
    /\ p.Built
    /\ Len(p.SpanPartitions) = 2
    /\ lastCheck.Checked
    /\ ~ lastCheck.Same

\* C17: every aggregator spec of a built plan carries the input checkpoint as
\* it is, span list and timestamp, entries outside the aggregator's own spans
\* included.
SharedCheckpoint ==
    p.Built =>
        \A i \in 1 .. Len(p.AggregatorSpecs) :
            /\ p.AggregatorSpecs[i].Checkpoint.Spans = checkpoint.Spans
            /\ p.AggregatorSpecs[i].Checkpoint.Timestamp = checkpoint.Timestamp

\* Two aggregators and a two-span checkpoint of which each aggregator has a
\* span that lies outside its own watches.
SharedCheckpointWitness ==
    /\ p.Built
    /\ Len(p.AggregatorSpecs) = 2
    /\ Len(checkpoint.Spans) = 2
    /\ checkpoint.Timestamp > 0
    /\ \A i \in 1 .. 2 :
          \E c \in 1 .. 2 :
              ~ Encloses(p.SpanPartitions[i].Spans, p.AggregatorSpecs[i].Checkpoint.Spans[c])

TsAt(f, k) == f[CHOOSE i \in 1 .. Len(f) : k \in SpanKeys(f[i])].Ts

\* C20: at every marker, the frontier emits the resolved timestamp and
\* persists a checkpoint, once each, exactly when the minimum strictly
\* advances; otherwise it emits and persists nothing and the resolved
\* timestamp stays. The timestamp recorded for a key never goes down (each key
\* holds the maximum reported for it), and a stale marker, one that is above
\* no recorded timestamp of its span, changes no recorded timestamp and emits
\* nothing.
EmitOnAdvance ==
    [][/\ IF resolved' > resolved
          THEN /\ emitted' = Append(emitted, resolved')
               /\ persisted' = Append(persisted, resolved')
          ELSE /\ emitted' = emitted
               /\ persisted' = persisted
               /\ resolved' = resolved
       /\ \A k \in SpansKeys(trackedSpans) :
             /\ TsAt(frontier', k) >= TsAt(frontier, k)
             /\ TsAt(frontier', k) = reported'[k]
       /\ reported' = reported =>
             /\ \A k \in SpansKeys(trackedSpans) : TsAt(frontier', k) = TsAt(frontier, k)
             /\ emitted' = emitted
             /\ persisted' = persisted]_vars

\* One span is at 3 and the other at 1: of the markers that brought this
\* about only the one that moved the minimum to 1 was emitted and persisted.
EmitOnAdvanceWitness ==
    /\ initialHighWater = 0
    /\ frontier = <<[Key |-> 0, EndKey |-> 2, Ts |-> 3], [Key |-> 2, EndKey |-> 4, Ts |-> 1]>>
    /\ emitted = <<1>>
    /\ persisted = <<1>>

\* C19: once an aggregator has failed, the flow generation is torn down as a
\* whole: the failure is recorded as the flow's error, execPlan finishes only
\* when no aggregator and no frontier of the generation is left, it then
\* fails the group (whose context is cancelled), and startDistChangefeed
\* returns an error with no task running.  Within a generation the plan is
\* never rebuilt and no task is started after the flow was set up.
AggregatorFailureFailsFlow ==
    /\ [](flowCancelled =>
            /\ resultRowsErr # "nil"
            /\ execPlan = "done" =>
                  /\ ~ \E t \in tasks : t.gen = gen
                  /\ groupErr # "nil"
                  /\ ctxCancelled
            /\ pc = "returned" =>
                  /\ err # "nil"
                  /\ tasks = {})
    /\ [][(pc = "GoAndWait" /\ execPlan # "start") => (p' = p /\ tasks' \subseteq tasks)]_vars

\* One of two aggregators failed; the other and the frontier were torn down
\* and startDistChangefeed returned the failure.
AggregatorFailureFailsFlowWitness ==
    /\ flowCancelled
    /\ Len(p.AggregatorSpecs) = 2
    /\ pc = "returned"
    /\ err = "OwnershipMismatch"
    /\ tasks = {}

\* C21 (start point): when distChangefeedFlow has called startDistChangefeed,
\* with a non-empty high-water h in the progress the initial high-water is h
\* and the schema timestamp its successor; with no high-water and an initial
\* scan requested the initial high-water is empty and the schema timestamp is
\* the statement time; with no high-water and no initial scan the initial
\* high-water is the statement time and the schema timestamp its successor.
\* The checkpoint is the progress's, or empty if it has none.
StartPoint ==
    (pc # "distChangefeedFlow" /\ initialScanType # "invalid") =>
        /\ IF HighWaterSet(progress)
           THEN /\ initialHighWater = progress.HighWater.ts
                /\ schemaTS = TimestampNext(progress.HighWater.ts)
           ELSE IF initialScanType # "NoInitialScan"
           THEN /\ initialHighWater = 0
                /\ schemaTS = statementTime
           ELSE /\ initialHighWater = statementTime
                /\ schemaTS = TimestampNext(statementTime)
        /\ checkpoint = IF progress.Checkpoint.set
                        THEN progress.Checkpoint.value
                        ELSE [Spans |-> <<>>, Timestamp |-> 0]

\* C22: while the context of the flow generation is cancelled and
\* startDistChangefeed has not returned, some step of the function or of its
\* tasks can be taken, whether or not a consumer is receiving from the
\* results channel: nothing is blocked for good, so the function returns.
CancelledFlowReturns ==
    (ctxCancelled /\ pc = "GoAndWait") => ENABLED GenerationStep

\* C23: in every built plan, whatever the checkpoint and the initial
\* high-water, each watch starts at the checkpoint timestamp or at the initial
\* high-water and never below the initial high-water; with an empty
\* checkpoint, and for a span the checkpoint spans do not wholly cover, it
\* starts at the initial high-water.
WatchNotBelowHighWater ==
    p.Built =>
        \A w \in AllWatches :
            /\ w.InitialResolved \in {checkpoint.Timestamp, initialHighWater}
            /\ w.InitialResolved >= initialHighWater
            /\ checkpoint.Spans = <<>> => w.InitialResolved = initialHighWater
            /\ ~ (SpanKeys(w.Span) \subseteq SpansKeys(checkpoint.Spans)) =>
                  w.InitialResolved = initialHighWater

====
